---- MODULE Spec2Model ----
(***************************************************************************)
(* Verification model of nstewart/freshmart-evolution.                     *)
(*                                                                         *)
(* The repository compares three ways of serving a derived price: the      *)
(* PostgreSQL view dynamic_pricing (on demand), the materialized view      *)
(* mv_dynamic_pricing (periodic snapshot) and the Materialize view         *)
(* dynamic_pricing (incremental).  The model has one part per component:   *)
(*   - the scenario controller of the React front end (two revisions of    *)
(*     App are in the sources: frontend/src/App.jsx and the App component  *)
(*     stored in frontend/src/locales/freshfund.json),                     *)
(*   - calculateStats,                                                     *)
(*   - the dynamic_pricing calculation and the snapshot refresh,           *)
(*   - the recursive category rollup,                                      *)
(*   - the polling loop fetchMetrics and the PriceDisplay of a strategy,   *)
(*   - the category table of the ShoppingCart component,                   *)
(*   - updateRefreshInterval.                                              *)
(* Every part has its own specification; the variables of the other parts  *)
(* stay at their initial values.                                           *)
(***************************************************************************)
EXTENDS Integers, Sequences, FiniteSets, TLC

VARIABLES
    \* ---- scenario controller (App) ----
    revision,                   \* which App revision runs: "App" or "FreshFund"
    currentScenario,            \* useState('direct')
    scenarios,                  \* useState: which strategies are visible
    trafficEnabled,             \* useState: the front end's copy of the traffic state
    trafficState,               \* the backend's traffic state (GET /api/traffic-state)
    initialTrafficStateFetched, \* useRef(false), FreshFund revision only
    error,                      \* useState(null)
    task,                       \* the async handlers in flight
    events,                     \* how many events of the environment happened
    \* ---- observation of the selection in flight (history variables) ----
    selSignals,                 \* toggle-traffic requests sent by the last selection
    selClean,                   \* no request of it failed, nobody else toggled meanwhile
    selReselect,                \* it selected the scenario that was settled
    settled,                    \* scenario whose selection completed cleanly, nothing since
    \* ---- calculateStats ----
    values,                     \* the samples handed to calculateStats (seconds)
    result,                     \* what calculateStats returned
    \* ---- dynamic pricing ----
    sales,                      \* table sales, sale_id = position
    promotions,                 \* table promotions, promotion_id = position
    inventory,                  \* table inventory, inventory_id = position
    rowOrder,                   \* per engine: the order it returns tied rows in
    changes,                    \* how many times the tables were changed
    lastToggle,                 \* the promotion deactivated by the last change
    \* ---- category rollup ----
    categories,                 \* table categories: parent_id of each category, 0 for NULL
    shopping_cart,              \* table shopping_cart
    \* ---- snapshot of mv_dynamic_pricing ----
    mv,                         \* the published snapshot: its refresh number and rows
    staging,                    \* the snapshot a refresh in flight is computing
    fetch,                      \* the fetch in flight and what it has read
    snClock,                    \* now(), in refresh intervals
    refresh_log,                \* the row of materialized_view_refresh_log
    snFailed,                   \* a refresh failed since the last successful one
    \* ---- fetchMetrics (App) ----
    now,                        \* Date.now(), in minutes
    metrics,                    \* useState([]): the window of samples
    stats,                      \* useState: per strategy, the response its statistics are from
    retryCount,                 \* let retryCount of the effect
    timers,                     \* pending setTimeout(fetchMetrics, ...) timers
    inflight,                   \* the GET /metrics requests awaiting their response
    started,                    \* how many fetchMetrics calls sent a request
    observed,                   \* per strategy: a price was delivered at some time
    failed,                     \* the last step was a failed fetch: what it found
    delivered,                  \* the samples handed to setMetrics so far
    overlapped,                 \* a response arrived while another request was in flight
    \* ---- PriceDisplay (App) ----
    pdClock,                    \* Date.now(), in seconds
    latency,                    \* currentMetric.<strategy>_end_to_end_latency
    pd,                         \* the PriceDisplay of the strategy: props, refs, what it shows
    pdObs,                      \* the last measurement delivered and when (history variable)
    \* ---- ShoppingCart ----
    expandedCategories,         \* useState([]): the ids of the expanded categories
    categorySubtotals,          \* useState([]): data.category_subtotals of the last response
    caError,                    \* useState(null): an error is set
    caFetches,                  \* the expanded parameters of the requests in flight
    caLast,                     \* how the last completed poll ended (history variable)
    \* ---- updateRefreshInterval (App) ----
    refreshInterval,            \* useState(60), FreshFund revision only
    serverInterval,             \* the interval configured in the backend
    isRefreshConfigLoading,     \* useState(false)
    riRequests,                 \* the requests on their way to the backend
    riResponses,                \* the responses on their way back
    riCalls,                    \* how many times updateRefreshInterval was called
    riLast                      \* the last call: its value, and whether it sent a request

scVars == <<revision, currentScenario, scenarios, trafficEnabled, trafficState,
            initialTrafficStateFetched, error, task, events,
            selSignals, selClean, selReselect, settled>>

stVars == <<values, result>>

prVars == <<sales, promotions, inventory, rowOrder, changes, lastToggle>>

ruVars == <<categories, shopping_cart>>

snVars == <<mv, staging, fetch, snClock, refresh_log, snFailed>>

meVars == <<now, metrics, stats, retryCount, timers, inflight, started,
            observed, failed, delivered, overlapped>>

\* the scenario controller's variables without error, which fetchMetrics sets too
scOther == <<revision, currentScenario, scenarios, trafficEnabled, trafficState,
             initialTrafficStateFetched, task, events,
             selSignals, selClean, selReselect, settled>>

pdVars == <<pdClock, latency, pd, pdObs>>

\* the parts of the user interface modelled on their own
caVars == <<expandedCategories, categorySubtotals, caError, caFetches, caLast>>

riVars == <<refreshInterval, serverInterval, isRefreshConfigLoading,
            riRequests, riResponses, riCalls, riLast>>

uiVars == <<pdVars, caVars, riVars>>

vars == <<scVars, stVars, prVars, ruVars, snVars, meVars, uiVars>>

(***************************************************************************)
(*                        SCENARIO CONTROLLER                              *)
(***************************************************************************)
Revisions == {"App", "FreshFund"}
Scenarios == {"direct", "batch", "materialize", "cqrs"}
Sources   == {"postgres", "materializeView", "materialize"}
SourceOrder == <<"postgres", "materializeView", "materialize">>
Tasks     == {"sel", "poll", "man", "poll2"}
\* the runs of fetchTrafficState: setInterval starts a run every two seconds,
\* whether the run before it has finished or not
PollTasks == {"poll", "poll2"}

Flags(p, v, m) == [postgres |-> p, materializeView |-> v, materialize |-> m]
AllFlags == [Sources -> BOOLEAN]

\* a controller whose cqrs case leaves the on-demand view visible
VisibleWithOnDemand(s) ==
    CASE s = "direct"      -> Flags(TRUE, FALSE, FALSE)
      [] s = "batch"       -> Flags(TRUE, TRUE, FALSE)
      [] s = "materialize" -> Flags(TRUE, TRUE, TRUE)
      [] s = "cqrs"        -> Flags(TRUE, FALSE, TRUE)

\* setScenarios(...) of each case of handleScenarioChange (same in both revisions)
Visible(s) ==
    CASE s = "direct"      -> Flags(TRUE, FALSE, FALSE)
      [] s = "batch"       -> Flags(TRUE, TRUE, FALSE)
      [] s = "materialize" -> Flags(TRUE, TRUE, TRUE)
      [] s = "cqrs"        -> Flags(FALSE, FALSE, TRUE)

\* App.jsx: the traffic each case asks for through its if-guards
\*   direct: if (!pg) ..; if (mv) ..; if (mz) ..      and so on
AppWanted(s) ==
    CASE s = "direct"      -> Flags(TRUE, FALSE, FALSE)
      [] s = "batch"       -> Flags(TRUE, TRUE, FALSE)
      [] s = "materialize" -> Flags(TRUE, TRUE, TRUE)
      [] s = "cqrs"        -> Flags(FALSE, FALSE, TRUE)

\* freshfund.json: the desired state each case passes to handleTrafficToggle
FundDesired(s) ==
    CASE s = "direct"      -> Flags(TRUE, TRUE, TRUE)
      [] s = "batch"       -> Flags(TRUE, TRUE, TRUE)
      [] s = "materialize" -> Flags(TRUE, TRUE, TRUE)
      [] s = "cqrs"        -> Flags(FALSE, FALSE, TRUE)

\* freshfund.json: expectedState of fetchTrafficState
expectedState(s) ==
    CASE s = "direct"      -> Flags(TRUE, TRUE, TRUE)
      [] s = "batch"       -> Flags(TRUE, TRUE, TRUE)
      [] s = "materialize" -> Flags(TRUE, TRUE, TRUE)
      [] s = "cqrs"        -> Flags(FALSE, FALSE, TRUE)

Desire(b) == IF b THEN "on" ELSE "off"

\* the calls handleTrafficToggle(source, desired) a handler still has to make,
\* in source order, for the sources picked by keep
RECURSIVE CallsFrom(_, _, _)
CallsFrom(i, keep, desired) ==
    IF i > Len(SourceOrder) THEN <<>>
    ELSE LET src == SourceOrder[i]
             rest == CallsFrom(i + 1, keep, desired)
         IN  IF keep[src] THEN <<[src |-> src, desired |-> desired[src]]>> \o rest
             ELSE rest

NoDesire == [src \in Sources |-> "null"]

\* App.jsx handleScenarioChange: a source is toggled when the cached
\* trafficEnabled differs from what the case wants
AppCalls(s, te) ==
    CallsFrom(1, [src \in Sources |-> te[src] # AppWanted(s)[src]], NoDesire)

\* freshfund.json handleScenarioChange: always three calls with a desired state
FundCalls(s) ==
    CallsFrom(1, [src \in Sources |-> TRUE],
              [src \in Sources |-> Desire(FundDesired(s)[src])])

IdleTask == [pc |-> "idle", queue |-> <<>>, fin |-> "sync",
             resp |-> Flags(FALSE, FALSE, FALSE)]

\* the first step of handleTrafficToggle: App.jsx posts the toggle at once,
\* freshfund.json first reads the traffic state
FirstPc == IF revision = "App" THEN "post" ELSE "get"

StartTask(calls, fin, resp) ==
    [pc |-> FirstPc, queue |-> calls, fin |-> fin, resp |-> resp]

\* POST /api/toggle-traffic/{source}: the backend flips the source's flag
toggleTraffic(ts, src) == [ts EXCEPT ![src] = ~ts[src]]

\* what setTrafficEnabled receives when a handler's last call has returned
FinalEnabled(t, ts) ==
    CASE t.fin = "sync"    -> ts
      [] t.fin = "allTrue" -> Flags(TRUE, TRUE, TRUE)
      [] t.fin = "resp"    -> t.resp

\* bookkeeping of the observation variables when task p sends a toggle request
ObserveSignal(p) ==
    IF p = "sel"
    THEN /\ selSignals' = selSignals + 1
         /\ UNCHANGED <<selClean, settled>>
    ELSE /\ selClean' = FALSE
         /\ settled' = "none"
         /\ UNCHANGED selSignals

ObserveFailure(p) ==
    IF p = "sel"
    THEN /\ selClean' = FALSE
         /\ UNCHANGED <<selSignals, settled>>
    ELSE UNCHANGED <<selSignals, selClean, settled>>

ObserveDone(p, clean) ==
    IF p = "sel"
    THEN settled' = IF clean THEN currentScenario ELSE "none"
    ELSE UNCHANGED settled

\* bound of the exploration: how many events of the environment (scenario
\* selections, clicks, polls, failed requests) one run holds
MaxEvents == 3

Spend(kind) ==
    /\ events < MaxEvents
    /\ events' = events + 1

ScInit ==
    /\ revision \in Revisions
    /\ currentScenario = "direct"
    /\ scenarios = Flags(TRUE, FALSE, FALSE)
    /\ trafficEnabled = Flags(TRUE, FALSE, FALSE)
    /\ trafficState \in AllFlags
    /\ initialTrafficStateFetched = FALSE
    /\ error = "none"
    /\ task = [p \in Tasks |-> IdleTask]
    /\ events = 0
    /\ selSignals = 0
    /\ selClean = TRUE
    /\ selReselect = FALSE
    /\ settled = "none"

\* the scenario controller at rest, for the specifications of the other parts
ScIdleOf(rev) ==
    /\ revision = rev
    /\ currentScenario = "direct"
    /\ scenarios = Flags(TRUE, FALSE, FALSE)
    /\ trafficEnabled = Flags(TRUE, FALSE, FALSE)
    /\ trafficState = Flags(TRUE, FALSE, FALSE)
    /\ initialTrafficStateFetched = FALSE
    /\ error = "none"
    /\ task = [p \in Tasks |-> IdleTask]
    /\ events = 0
    /\ selSignals = 0
    /\ selClean = TRUE
    /\ selReselect = FALSE
    /\ settled = "none"

ScIdle == ScIdleOf("FreshFund")

ScFrame == UNCHANGED <<stVars, prVars, ruVars, snVars, meVars, uiVars>>

\* toggleScenario(scenario): flips the visibility of one strategy
toggleScenario(src) ==
    /\ Spend("click")
    /\ scenarios' = [scenarios EXCEPT ![src] = ~scenarios[src]]
    /\ UNCHANGED <<revision, currentScenario, trafficEnabled, trafficState,
                   initialTrafficStateFetched, error, task,
                   selSignals, selClean, selReselect, settled>>
    /\ ScFrame

\* handleScenarioChange(scenario), up to its first request
SelectionStart(s, calls) ==
    /\ task["sel"].pc = "idle"
    /\ Spend("select")
    /\ currentScenario' = s
    /\ scenarios' = Visible(s)
    /\ selReselect' = (settled = s /\ currentScenario = s)
    /\ selSignals' = 0
    /\ selClean' = TRUE
    /\ IF calls = <<>>
       THEN /\ task' = task
            /\ settled' = s
       ELSE /\ task' = [task EXCEPT !["sel"] = StartTask(calls, "sync", IdleTask.resp)]
            /\ settled' = "none"
    /\ UNCHANGED <<revision, trafficEnabled, trafficState,
                   initialTrafficStateFetched, error>>
    /\ ScFrame

handleScenarioChangeApp(s) ==
    /\ revision = "App"
    /\ SelectionStart(s, AppCalls(s, trafficEnabled))

handleScenarioChangeFund(s) ==
    /\ revision = "FreshFund"
    /\ SelectionStart(s, FundCalls(s))

\* a click on one of the traffic buttons
\*   App.jsx:        onClick={() => handleTrafficToggle('postgres')}
\*   freshfund.json: onClick={() => handleTrafficToggle('postgres', true)}
TrafficButton(src) ==
    /\ task["man"].pc = "idle"
    /\ Spend("click")
    /\ task' = [task EXCEPT !["man"] =
                  StartTask(<<[src |-> src,
                               desired |-> IF revision = "App" THEN "null" ELSE "on"]>>,
                            "sync", IdleTask.resp)]
    /\ UNCHANGED <<revision, currentScenario, scenarios, trafficEnabled, trafficState,
                   initialTrafficStateFetched, error,
                   selSignals, selClean, selReselect, settled>>
    /\ ScFrame

\* App.jsx fetchTrafficState: GET the traffic state and copy it
fetchTrafficStateApp ==
    /\ revision = "App"
    /\ task["poll"].pc = "idle"
    /\ Spend("poll")
    /\ trafficEnabled' = trafficState
    /\ UNCHANGED <<revision, currentScenario, scenarios, trafficState,
                   initialTrafficStateFetched, error, task,
                   selSignals, selClean, selReselect, settled>>
    /\ ScFrame

\* freshfund.json fetchTrafficState: the first run enables every source, the
\* later runs repair what differs from expectedState[currentScenario]
fetchTrafficState(p) ==
    /\ revision = "FreshFund"
    /\ task[p].pc = "idle"
    /\ LET resp == trafficState
           want == expectedState(currentScenario)
           calls == IF ~initialTrafficStateFetched
                    THEN CallsFrom(1, [src \in Sources |-> TRUE],
                                   [src \in Sources |-> "on"])
                    ELSE CallsFrom(1, [src \in Sources |-> resp[src] # want[src]],
                                   [src \in Sources |-> Desire(want[src])])
           fin == IF ~initialTrafficStateFetched THEN "allTrue" ELSE "resp"
       IN  IF calls = <<>>
           THEN /\ trafficEnabled' = resp
                /\ task' = task
           ELSE /\ trafficEnabled' = trafficEnabled
                /\ task' = [task EXCEPT ![p] = StartTask(calls, fin, resp)]
    /\ initialTrafficStateFetched' = TRUE
    /\ UNCHANGED <<revision, currentScenario, scenarios, trafficState, error,
                   selSignals, selClean, selReselect, settled>>
    /\ ScFrame

\* one run of the poll among the events of a bounded exploration
fetchTrafficStateFund ==
    /\ Spend("poll")
    /\ fetchTrafficState("poll")

\* freshfund.json handleTrafficToggle, first request: read the current state
\* and decide whether a toggle is needed
TrafficToggleGet(p) ==
    /\ task[p].pc = "get"
    /\ LET call == Head(task[p].queue)
           isCurrentlyEnabled == trafficState[call.src]
           needed == \/ call.desired = "null"
                     \/ call.desired # Desire(isCurrentlyEnabled)
       IN  task' = [task EXCEPT ![p].pc = IF needed THEN "post" ELSE "sync"]
    /\ UNCHANGED <<revision, currentScenario, scenarios, trafficEnabled, trafficState,
                   initialTrafficStateFetched, error, events,
                   selSignals, selClean, selReselect, settled>>
    /\ ScFrame

\* handleTrafficToggle: POST /api/toggle-traffic succeeds
TrafficTogglePost(p) ==
    /\ task[p].pc = "post"
    /\ trafficState' = toggleTraffic(trafficState, Head(task[p].queue).src)
    /\ task' = [task EXCEPT ![p].pc = "sync"]
    /\ ObserveSignal(p)
    /\ UNCHANGED <<revision, currentScenario, scenarios, trafficEnabled,
                   initialTrafficStateFetched, error, events, selReselect>>
    /\ ScFrame

\* handleTrafficToggle: a request of the try block fails; the catch block sets
\* the error and goes on to refresh the state
TrafficToggleFail(p) ==
    /\ task[p].pc \in {"get", "post"}
    /\ Spend("fail")
    /\ error' = "toggle"
    /\ task' = [task EXCEPT ![p].pc = "sync"]
    /\ ObserveFailure(p)
    /\ UNCHANGED <<revision, currentScenario, scenarios, trafficEnabled, trafficState,
                   initialTrafficStateFetched, selReselect>>
    /\ ScFrame

\* handleTrafficToggle: the closing GET /api/traffic-state and
\* setTrafficEnabled; then the caller goes on with its next call or finishes
TrafficToggleSync(p) ==
    /\ task[p].pc = "sync"
    /\ LET rest == Tail(task[p].queue)
       IN  IF rest = <<>>
           THEN /\ trafficEnabled' = FinalEnabled(task[p], trafficState)
                /\ task' = [task EXCEPT ![p] = IdleTask]
                /\ ObserveDone(p, selClean)
           ELSE /\ trafficEnabled' = trafficState
                /\ task' = [task EXCEPT ![p].queue = rest, ![p].pc = FirstPc]
                /\ UNCHANGED settled
    /\ UNCHANGED <<revision, currentScenario, scenarios, trafficState,
                   initialTrafficStateFetched, error, events,
                   selSignals, selClean, selReselect>>
    /\ ScFrame

ScNext ==
    \/ \E src \in Sources : toggleScenario(src)
    \/ \E s \in Scenarios : handleScenarioChangeApp(s)
    \/ \E s \in Scenarios : handleScenarioChangeFund(s)
    \/ \E src \in Sources : TrafficButton(src)
    \/ fetchTrafficStateApp
    \/ fetchTrafficStateFund
    \/ \E p \in Tasks : TrafficToggleGet(p)
    \/ \E p \in Tasks : TrafficTogglePost(p)
    \/ \E p \in Tasks : TrafficToggleFail(p)
    \/ \E p \in Tasks : TrafficToggleSync(p)

\* The reconciliation poll left to itself: the backend is in any state, the
\* interval keeps firing, every request succeeds, and nobody selects a
\* scenario or clicks a button.
ReInit ==
    /\ revision = "FreshFund"
    /\ currentScenario \in Scenarios
    /\ scenarios = Visible(currentScenario)
    /\ trafficEnabled \in {Flags(TRUE, FALSE, FALSE), Flags(TRUE, TRUE, TRUE)}
    /\ trafficState \in AllFlags
    /\ initialTrafficStateFetched \in BOOLEAN
    /\ error = "none"
    /\ task = [p \in Tasks |-> IdleTask]
    /\ events = 0
    /\ selSignals = 0
    /\ selClean = TRUE
    /\ selReselect = FALSE
    /\ settled = "none"

\* setInterval(fetchTrafficState, 2000) fires; the second run is one that
\* starts while the first is still waiting for its requests
IntervalFires(p) ==
    /\ p = "poll2" => task["poll"].pc # "idle"
    /\ fetchTrafficState(p)
    /\ UNCHANGED events

PollStep(p) ==
    TrafficToggleGet(p) \/ TrafficTogglePost(p) \/ TrafficToggleSync(p)

ReNext ==
    \/ \E p \in PollTasks : IntervalFires(p)
    \/ \E p \in PollTasks : TrafficToggleGet(p)
    \/ \E p \in PollTasks : TrafficTogglePost(p)
    \/ \E p \in PollTasks : TrafficToggleSync(p)

\* the interval fires again and again, and every request is answered
ReFair ==
    /\ WF_vars(IntervalFires("poll"))
    /\ \A p \in PollTasks : WF_vars(PollStep(p))

\* C29: the state-reconciliation poll converges: when the backend traffic
\* state differs from the state expected for the current scenario, and
\* requests succeed and nothing is selected or clicked from then on, the
\* backend state eventually equals the expected state and stays equal to it.
C29_ReconciliationConverges ==
    (trafficState # expectedState(currentScenario))
        ~> [](trafficState = expectedState(currentScenario))

(***************************************************************************)
(*                            calculateStats                               *)
(***************************************************************************)
\* bounds of the windows built sample by sample: their length and the
\* largest sample; MaxShift bounds how far the long windows are shifted and
\* rotated
MaxLen == 3
MaxSample == 2
MaxShift == 2

NoResult == [done |-> FALSE, max |-> 0, avg |-> [num |-> 0, den |-> 1], p99 |-> 0]

\* values.reduce((a, b) => a + b, 0), summed by halves
RECURSIVE SumRange(_, _, _)
SumRange(q, lo, hi) ==
    IF lo > hi THEN 0
    ELSE IF lo = hi THEN q[lo]
    ELSE LET mid == (lo + hi) \div 2
         IN  SumRange(q, lo, mid) + SumRange(q, mid + 1, hi)

SumSeq(q) == SumRange(q, 1, Len(q))

Samples(q) == {q[i] : i \in 1..Len(q)}

\* Math.max(...values)
MaxSeq(q) == CHOOSE m \in Samples(q) : \A x \in Samples(q) : x <= m

\* [...values].sort((a, b) => a - b): the ascending arrangement, whose k-th
\* element is the sample with fewer than k samples below it and at least k
\* samples not above it
SortAscending(q) ==
    [k \in 1..Len(q) |->
        CHOOSE v \in Samples(q) :
            /\ Cardinality({i \in 1..Len(q) : q[i] < v}) < k
            /\ Cardinality({i \in 1..Len(q) : q[i] <= v}) >= k]

\* Math.floor(values.length * 0.99)
p99Index(n) == (n * 99) \div 100

\* sortedValues[p99Index] || max : a falsy element (0) gives way to max
OrMax(x, max) == IF x = 0 THEN max ELSE x

\* calculateStats without the conversion to ms
calculateStatsUnconverted(vs) ==
    IF vs = <<>>
    THEN [done |-> TRUE, max |-> 0, avg |-> [num |-> 0, den |-> 1], p99 |-> 0]
    ELSE LET sortedValues == SortAscending(vs)
             max == MaxSeq(vs)
             p99 == OrMax(sortedValues[p99Index(Len(vs)) + 1], max)
         IN  [done |-> TRUE,
              max |-> max,
              avg |-> [num |-> SumSeq(vs), den |-> Len(vs)],
              p99 |-> p99]

\* calculateStats without its first line: for an empty window Math.max()
\* is -Infinity (written -1), the average 0/0 and the p99 the maximum
calculateStatsUnguarded(vs) ==
    IF vs = <<>>
    THEN [done |-> TRUE, max |-> -1, avg |-> [num |-> 0, den |-> 0], p99 |-> -1]
    ELSE LET sortedValues == SortAscending(vs)
             max == MaxSeq(vs)
             p99 == OrMax(sortedValues[p99Index(Len(vs)) + 1], max)
         IN  [done |-> TRUE,
              max |-> max * 1000,
              avg |-> [num |-> SumSeq(vs) * 1000, den |-> Len(vs)],
              p99 |-> p99 * 1000]

\* calculateStats(values); max, avg and p99 are converted to ms.  The
\* average is kept as the fraction num/den.
calculateStats(vs) ==
    IF vs = <<>>
    THEN [done |-> TRUE, max |-> 0, avg |-> [num |-> 0, den |-> 1], p99 |-> 0]
    ELSE LET sortedValues == SortAscending(vs)
             max == MaxSeq(vs)
             p99 == OrMax(sortedValues[p99Index(Len(vs)) + 1], max)
         IN  [done |-> TRUE,
              max |-> max * 1000,
              avg |-> [num |-> SumSeq(vs) * 1000, den |-> Len(vs)],
              p99 |-> p99 * 1000]

\* the long windows: n consecutive samples from lo, rotated by r places, and
\* n zeros followed by one sample v
Ramp(n, lo, r) == [i \in 1..n |-> lo + ((i - 1 + r) % n)]
ZerosThen(n, v) == [i \in 1..(n + 1) |-> IF i <= n THEN 0 ELSE v]

LongWindows ==
    {Ramp(n, lo, r) : n \in {99, 100, 101}, lo \in 0..MaxShift, r \in 0..MaxShift}
        \cup {ZerosThen(n, v) : n \in {99, 100}, v \in 1..MaxSample}

StInit ==
    /\ values \in {<<>>, <<42>>} \cup LongWindows
    /\ result = NoResult

StIdle ==
    /\ values = <<>>
    /\ result = NoResult

StFrame == UNCHANGED <<scVars, prVars, ruVars, snVars, meVars, uiVars>>

\* one more sample arrives in the window
Record(v) ==
    /\ Len(values) < MaxLen
    /\ values' = Append(values, v)
    /\ result' = NoResult
    /\ StFrame

\* the statistics of the window are computed
ComputeStats ==
    /\ ~result.done
    /\ result' = calculateStats(values)
    /\ UNCHANGED values
    /\ StFrame

StNext ==
    \/ \E v \in 0..MaxSample : Record(v)
    \/ ComputeStats

\* the k-th smallest sample of the window (k from 1)
KthSmallest(k) == SortAscending(values)[k]

Distinct(q) == \A i, j \in 1..Len(q) : i # j => q[i] # q[j]

\* C6: for a window of exactly 100 pairwise distinct samples the reported
\* p99 is the 99th smallest sample (in ms), not the largest one.
C6_P99Of100IsThe99thSmallest ==
    (result.done /\ Len(values) = 100 /\ Distinct(values))
        => result.p99 = 1000 * KthSmallest(99)

\* C7: for every non-empty window the reported p99 is the element at index
\* floor(0.99 * N) of the ascending samples (in ms), whatever the sample
\* values are; the maximum is reported only when that index is the last one.
C7_P99IsElementAtIndex ==
    (result.done /\ values # <<>>)
        => result.p99 = 1000 * KthSmallest(((Len(values) * 99) \div 100) + 1)

\* C25 as stated: for a window of the single sample v the statistics are
\* max = average = p99 = v (42 for the sample 42).
C25_SingleSampleIsItsOwnStats ==
    (result.done /\ Len(values) = 1)
        => /\ result.max = values[1]
           /\ result.avg.num = values[1] * result.avg.den
           /\ result.p99 = values[1]

\* C25: for a window of the single sample v, in seconds, max, average and
\* p99 are all v converted to ms: 42000 for the sample 42.
C25_SingleSampleInMs ==
    (result.done /\ Len(values) = 1)
        => /\ result.max = 1000 * values[1]
           /\ result.avg.num = 1000 * values[1] * result.avg.den
           /\ result.p99 = 1000 * values[1]

C25_StatsOfSample42 ==
    /\ result.done
    /\ values = <<42>>
    /\ result.max = 42000

\* C26: for an empty window the statistics are all zero, and they are
\* computed without an error.
C26_EmptyWindowAllZero ==
    /\ (result.done /\ values = <<>>)
          => (result.max = 0 /\ result.avg.num = 0 /\ result.avg.den # 0
                /\ result.p99 = 0)
    /\ (values = <<>> /\ ~result.done) => ENABLED ComputeStats

C26_EmptyWindowComputed ==
    /\ result.done
    /\ values = <<>>

(***************************************************************************)
(* Claims about the scenario controller                                    *)
(***************************************************************************)
SelectionDone == task["sel"].pc = "idle" /\ settled # "none"

\* C1: selecting the scenario that is already active, in the traffic state
\* the completed selection of that scenario left, sends no toggle-traffic
\* request for any of the three strategies (as long as nobody else toggles
\* traffic and no request fails during the second selection).
C1_ReselectSendsNoSignal == (selReselect /\ selClean) => selSignals = 0

\* C1 restricted to the revision of freshfund.json
C1_ReselectSendsNoSignal_Fund ==
    (revision = "FreshFund" /\ selReselect /\ selClean) => selSignals = 0

C1_Reselected_Fund ==
    revision = "FreshFund" /\ selReselect /\ SelectionDone

\* the running set each revision's handleScenarioChange asks for
RunningAfter(rev, s) == IF rev = "App" THEN AppWanted(s) ELSE FundDesired(s)

\* C2: once a selection of scenario s has run to completion (every request
\* succeeded, nobody else changed traffic meanwhile) the set of running
\* strategies is the one fixed for s, whatever held before the selection.
C2_RunningSetFixedByScenario ==
    SelectionDone => trafficState = RunningAfter(revision, settled)

C2_RunningSetFixedByScenario_Fund ==
    (revision = "FreshFund" /\ SelectionDone)
        => trafficState = RunningAfter(revision, settled)

\* C3: after a completed transition into direct or batch every strategy the
\* scenario hides is still running in the background.
C3_HiddenKeepsRunning ==
    (SelectionDone /\ settled \in {"direct", "batch"})
        => \A src \in Sources : ~Visible(settled)[src] => trafficState[src]

C3_HiddenKeepsRunning_Fund ==
    (revision = "FreshFund" /\ SelectionDone /\ settled \in {"direct", "batch"})
        => \A src \in Sources : ~Visible(settled)[src] => trafficState[src]

\* the strategies a set of flags switches on
On(flags) == {src \in Sources : flags[src]}

\* the four states of the controller: the strategies each scenario shows
OnDemandOnly == {"postgres"}
OnDemandPlusSnapshot == {"postgres", "materializeView"}
AllThree == {"postgres", "materializeView", "materialize"}
IncrementalOnly == {"materialize"}

ShownIn(s) ==
    CASE s = "direct"      -> OnDemandOnly
      [] s = "batch"       -> OnDemandPlusSnapshot
      [] s = "materialize" -> AllThree
      [] s = "cqrs"        -> IncrementalOnly

\* C22: a scenario selection leaves exactly the strategies of the selected
\* scenario visible, whatever was visible before it.
C22_SelectionFixesVisible ==
    [][\A s \in Scenarios :
          (handleScenarioChangeApp(s) \/ handleScenarioChangeFund(s))
              => (currentScenario' = s /\ On(scenarios') = ShownIn(s))]_vars

\* the one event so far selected cqrs, and the on-demand view, visible
\* before it, is hidden
C22_SelectedIncrementalOnly ==
    /\ events = 1
    /\ currentScenario = "cqrs"
    /\ On(scenarios) = IncrementalOnly

\* C23: at every moment the visible strategies are those of the current
\* scenario, one of the four combinations; no selection or visibility
\* toggle reaches another one.
C23_VisibleIsOneOfFour ==
    On(scenarios) = ShownIn(currentScenario)

\* C24: on start-up, while no event but the first run of the reconciliation
\* poll has happened, the scenario is direct and only the on-demand
\* strategy is visible and, as far as the front end knows, running.
C24_StartsOnDemandOnly ==
    (events = 0 \/ (events = 1 /\ initialTrafficStateFetched))
        => /\ currentScenario = "direct"
           /\ On(scenarios) = OnDemandOnly
           /\ On(trafficEnabled) = OnDemandOnly

\* C27: start/stop signalling is idempotent under concurrency: a request
\* that carries a desired state for a strategy, whatever other requests for
\* the same strategy and the same desired state are in flight, never toggles
\* the strategy away from that state: after its toggle the backend's running
\* flag of the strategy equals the desired state.
C27_NeverToggledAway ==
    [][\A p \in Tasks :
          (task[p].pc = "post" /\ Head(task[p].queue).desired # "null"
             /\ TrafficTogglePost(p))
              => Desire(trafficState'[Head(task[p].queue).src])
                     = Head(task[p].queue).desired]_vars

(***************************************************************************)
(*                  dynamic_pricing: the price calculation                 *)
(*                                                                         *)
(* NUMERIC values are exact fractions num/den in lowest terms.  The CTE    *)
(* high_demand_products and the column last_update_time are left out: the  *)
(* first is LEFT JOINed on its key and only feeds avg_sale_price, which    *)
(* the final SELECT does not read; neither changes a row or a price.       *)
(***************************************************************************)
\* bounds: the number of products and of changes to the tables
NumProducts == 3
MaxChanges == 2

\* ORDER BY sale_date DESC LIMIT 10
RecentLimit == 10

Products == 1..NumProducts
Engines == {"postgres", "materialize"}
RowOrders == {"asc", "desc"}
SalePrices == {50, 200}
Stocks == {9}

\* table products: base_price, category_id and whether product_name
\* matches '%cheap%' (the generator names every product with i % 5 = 3 so)
products ==
    [p \in Products |-> [base_price |-> 100, category_id |-> 1, cheap |-> (p % 5 = 3)]]

RECURSIVE GCD(_, _)
GCD(a, b) == IF b = 0 THEN a ELSE GCD(b, a % b)

Rat(n, d) == LET g == GCD(n, d) IN [num |-> n \div g, den |-> d \div g]
One == [num |-> 1, den |-> 1]
RatMul(a, b) ==
    LET g1 == GCD(a.num, b.den)
        g2 == GCD(b.num, a.den)
    IN  [num |-> (a.num \div g1) * (b.num \div g2),
         den |-> (a.den \div g2) * (b.den \div g1)]
RatDiv(a, b) ==
    RatMul(a, IF b.num < 0 THEN [num |-> 0 - b.den, den |-> 0 - b.num]
              ELSE [num |-> b.den, den |-> b.num])
RatAdd(a, b) == Rat(a.num * b.den + b.num * a.den, a.den * b.den)
RatSub(a, b) == Rat(a.num * b.den - b.num * a.den, a.den * b.den)
RatGt(a, b) == a.num * b.den > b.num * a.den

\* the sale_ids of product p, and the sum of their prices
SalesOf(p) == {i \in 1..Len(sales) : sales[i].product_id = p}

RECURSIVE SumPrices(_)
SumPrices(ids) ==
    IF ids = {} THEN 0
    ELSE LET i == CHOOSE i \in ids : TRUE
         IN  sales[i].price + SumPrices(ids \ {i})

\* ORDER BY sale_date DESC: row i comes before row j.  Rows with the same
\* sale_date have no order in the query; the engine returns them in its own
\* row order.
ComesBefore(order, i, j) ==
    \/ sales[i].sale_date > sales[j].sale_date
    \/ /\ sales[i].sale_date = sales[j].sale_date
       /\ IF order = "asc" THEN i < j ELSE i > j

\* the LATERAL subquery: the first 10 sales of product p
RecentSales(order, p) ==
    {i \in SalesOf(p) :
        Cardinality({j \in SalesOf(p) : ComesBefore(order, j, i)}) < RecentLimit}

\* recent_prices: AVG(price) of them, one row per product with sales
recent_prices(order) ==
    [p \in {q \in Products : SalesOf(q) # {}} |->
        Rat(SumPrices(RecentSales(order, p)), Cardinality(RecentSales(order, p)))]

AnyPromotions(p) == {i \in 1..Len(promotions) : promotions[i].product_id = p}

\* WHERE pr.active = TRUE
ActivePromotions(p) ==
    {i \in 1..Len(promotions) : promotions[i].product_id = p /\ promotions[i].active}

\* promotion_effect: MIN(promotion_discount) over the active promotions
promotion_effect ==
    [p \in {q \in Products : ActivePromotions(q) # {}} |->
        CHOOSE d \in {promotions[i].promotion_discount : i \in ActivePromotions(p)} :
            \A i \in ActivePromotions(p) : d <= promotions[i].promotion_discount]

\* popularity_score: RANK() by sale count within the category, one row per
\* product with sales
popularity_score ==
    [p \in {q \in Products : SalesOf(q) # {}} |->
        [sale_count |-> Cardinality(SalesOf(p)),
         popularity_rank |->
            1 + Cardinality({q \in Products :
                    /\ SalesOf(q) # {}
                    /\ products[q].category_id = products[p].category_id
                    /\ Cardinality(SalesOf(q)) > Cardinality(SalesOf(p))})]]

InventoryOf(p) == {i \in 1..Len(inventory) : inventory[i].product_id = p}

RECURSIVE SumStock(_)
SumStock(ids) ==
    IF ids = {} THEN 0
    ELSE LET i == CHOOSE i \in ids : TRUE
         IN  inventory[i].stock + SumStock(ids \ {i})

\* inventory_status: SUM(stock) and its RANK(), one row per product with
\* inventory
inventory_status ==
    [p \in {q \in Products : InventoryOf(q) # {}} |->
        [total_stock |-> SumStock(InventoryOf(p)),
         stock_rank |->
            1 + Cardinality({q \in Products :
                    /\ InventoryOf(q) # {}
                    /\ SumStock(InventoryOf(q)) > SumStock(InventoryOf(p))})]]

\* CASE WHEN popularity_rank <= 3 THEN 1.2 WHEN ... BETWEEN 4 AND 10 THEN 1.1
\* ELSE 0.9 END
popularity_adjustment(p) ==
    LET rank == popularity_score[p].popularity_rank
    IN  IF rank <= 3 THEN Rat(12, 10)
        ELSE IF rank >= 4 /\ rank <= 10 THEN Rat(11, 10)
        ELSE Rat(9, 10)

\* COALESCE(1.0 - (pe.promotion_discount / 100), 1)
promotion_discount(p) ==
    IF p \in DOMAIN promotion_effect
    THEN RatSub(One, Rat(promotion_effect[p], 100))
    ELSE One

\* CASE WHEN stock_rank <= 3 THEN 1.1 WHEN ... BETWEEN 4 AND 10 THEN 1.05
\* ELSE 1 END; without inventory stock_rank is NULL and ELSE applies
stock_adjustment(p) ==
    IF p \notin DOMAIN inventory_status THEN One
    ELSE LET rank == inventory_status[p].stock_rank
         IN  IF rank <= 3 THEN Rat(11, 10)
             ELSE IF rank >= 4 /\ rank <= 10 THEN Rat(105, 100)
             ELSE One

\* CASE WHEN base_price > avg_price THEN 1 + (base_price - avg_price) / avg_price
\* ELSE 1 - (avg_price - base_price) / avg_price END
demand_multiplier(base, avg) ==
    IF RatGt(base, avg)
    THEN RatAdd(One, RatDiv(RatSub(base, avg), avg))
    ELSE RatSub(One, RatDiv(RatSub(avg, base), avg))

\* CASE WHEN product_name ilike '%cheap%' THEN 0.8 ELSE 1.0 END
additional_discount(p) == IF products[p].cheap THEN Rat(8, 10) ELSE One

\* one row of the CTE dynamic_pricing with the adjusted_price of the final
\* SELECT
PricingRow(order, p) ==
    LET base   == Rat(products[p].base_price, 1)
        pop    == popularity_adjustment(p)
        promo  == promotion_discount(p)
        stock  == stock_adjustment(p)
        demand == demand_multiplier(base, recent_prices(order)[p])
        add    == additional_discount(p)
    IN  [product_id |-> p,
         base_price |-> base,
         popularity_adjustment |-> pop,
         promotion_discount |-> promo,
         stock_adjustment |-> stock,
         demand_multiplier |-> demand,
         additional_discount |-> add,
         adjusted_price |->
            RatMul(RatMul(RatMul(RatMul(RatMul(base, pop), promo), stock), demand), add)]

\* FROM products p LEFT JOIN recent_prices ... JOIN popularity_score pop ...:
\* the inner join keeps the products that have a popularity_score row
PricingQuery(order) ==
    {PricingRow(order, p) : p \in {q \in Products : q \in DOMAIN popularity_score}}

\* the three views, each evaluated by its engine
dynamic_pricing == PricingQuery(rowOrder["postgres"])
mv_dynamic_pricing == PricingQuery(rowOrder["postgres"])
mz_dynamic_pricing == PricingQuery(rowOrder["materialize"])

\* what each strategy serves on the present contents of the tables
View(src) ==
    CASE src = "postgres" -> dynamic_pricing
      [] src = "materializeView" -> mv_dynamic_pricing
      [] src = "materialize" -> mz_dynamic_pricing
RowsOf(view, p) == {r \in view : r.product_id = p}

\* the sales some product starts with: n sales on consecutive days,
\* alternating between the two prices; with tied, the two oldest share a day
History(n, tied) ==
    [i \in 1..n |->
        [product_id |-> 1,
         price |-> IF i % 2 = 1 THEN 50 ELSE 200,
         sale_date |-> IF tied /\ i = 1 THEN 2 ELSE i]]

Histories ==
    {<<>>} \cup {History(n, tied) : n \in {RecentLimit - 1, RecentLimit}, tied \in BOOLEAN}

Promotion(p, d, a) == [product_id |-> p, promotion_discount |-> d, active |-> a]

PromotionTables ==
    { <<>>,
      <<Promotion(1, 10, TRUE)>>,
      <<Promotion(1, 10, TRUE), Promotion(1, 20, TRUE)>>,
      <<Promotion(1, 20, FALSE), Promotion(2, 10, TRUE)>>,
      <<Promotion(1, 150, TRUE)>> }

InventoryTables == {<<>>, <<[product_id |-> 1, stock |-> 5]>>}

NoToggle ==
    [set |-> FALSE, product_id |-> 0, discount |-> 0, before |-> [src \in Sources |-> {}]]

PrInit ==
    /\ sales \in Histories
    /\ promotions \in PromotionTables
    /\ inventory \in InventoryTables
    /\ rowOrder \in [Engines -> RowOrders]
    /\ changes = 0
    /\ lastToggle = NoToggle

PrIdle ==
    /\ sales = <<>>
    /\ promotions = <<>>
    /\ inventory = <<>>
    /\ rowOrder = [e \in Engines |-> "asc"]
    /\ changes = 0
    /\ lastToggle = NoToggle

PrFrame == UNCHANGED <<scVars, stVars, ruVars, snVars, meVars, uiVars>>

\* NOW(): later than every sale so far
Now == RecentLimit + 1 + changes

\* INSERT INTO sales
InsertSale(p, price) ==
    /\ changes < MaxChanges
    /\ changes' = changes + 1
    /\ sales' = Append(sales, [product_id |-> p, price |-> price, sale_date |-> Now])
    /\ lastToggle' = NoToggle
    /\ UNCHANGED <<promotions, inventory, rowOrder>>
    /\ PrFrame

\* INSERT INTO inventory
Restock(p, stock) ==
    /\ changes < MaxChanges
    /\ changes' = changes + 1
    /\ inventory' = Append(inventory, [product_id |-> p, stock |-> stock])
    /\ lastToggle' = NoToggle
    /\ UNCHANGED <<sales, promotions, rowOrder>>
    /\ PrFrame

\* POST /toggle-promotion: promotion i changes between active and inactive
TogglePromotion(i) ==
    /\ changes < MaxChanges
    /\ changes' = changes + 1
    /\ promotions' = [promotions EXCEPT ![i].active = ~promotions[i].active]
    /\ lastToggle' =
          LET p == promotions[i].product_id
          IN  IF ActivePromotions(p) = {i}
              THEN [set |-> TRUE,
                    product_id |-> p,
                    discount |-> promotions[i].promotion_discount,
                    before |-> [src \in Sources |-> RowsOf(View(src), p)]]
              ELSE NoToggle
    /\ UNCHANGED <<sales, inventory, rowOrder>>
    /\ PrFrame

PrNext ==
    \/ \E p \in Products, price \in SalePrices : InsertSale(p, price)
    \/ \E p \in Products, stock \in Stocks : Restock(p, stock)
    \/ \E i \in 1..Len(promotions) : TogglePromotion(i)

\* the price as base x popularity x promotion x stock x override, the
\* demand factor being 1
WithoutDemand(r) ==
    RatMul(RatMul(RatMul(RatMul(r.base_price, r.popularity_adjustment),
                         r.promotion_discount), r.stock_adjustment),
           r.additional_discount)

\* C8: when the only active promotion of a product, of discount d, is
\* deactivated and nothing else changes, every strategy's value v of the
\* product becomes v / (1 - d/100): the promotion factor goes from 1 - d/100
\* to 1 and no other factor of the product changes.
C8_DeactivationRemovesFactor ==
    lastToggle.set =>
        \A src \in Sources : \A b \in lastToggle.before[src] :
            \E a \in RowsOf(View(src), lastToggle.product_id) :
                /\ b.promotion_discount = RatSub(One, Rat(lastToggle.discount, 100))
                /\ a.promotion_discount = One
                /\ a.adjusted_price = RatDiv(b.adjusted_price, b.promotion_discount)
                /\ a.base_price = b.base_price
                /\ a.popularity_adjustment = b.popularity_adjustment
                /\ a.stock_adjustment = b.stock_adjustment
                /\ a.demand_multiplier = b.demand_multiplier
                /\ a.additional_discount = b.additional_discount

C8_PromotionDeactivated ==
    /\ lastToggle.set
    /\ lastToggle.discount > 0
    /\ \A src \in Sources : lastToggle.before[src] # {}
    /\ \E b \in lastToggle.before["postgres"] : b.adjusted_price # One

\* C9: a product without any sale still has a row in the view; its demand
\* factor is 1 and its adjusted price is base x popularity x promotion x
\* stock x override.
C9_NoSalesDemandFactorOne ==
    \A p \in Products :
        SalesOf(p) = {} =>
            \E r \in RowsOf(dynamic_pricing, p) :
                /\ r.demand_multiplier = One
                /\ r.adjusted_price = WithoutDemand(r)

\* C11: whatever the tables hold, every strategy's adjusted price of every
\* product is non-negative.
C11_ValueNonNegative ==
    \A src \in Sources : \A r \in View(src) : r.adjusted_price.num >= 0

\* C10: on the same contents of products, sales, promotions and inventory
\* the on-demand view, the materialized view and the Materialize view hold
\* the same products with the same adjusted price.
C10_SameItemsSameValues ==
    /\ dynamic_pricing = mv_dynamic_pricing
    /\ dynamic_pricing = mz_dynamic_pricing

(***************************************************************************)
(*                 rollup: the recursive category totals                   *)
(***************************************************************************)
\* bounds: the number of categories, of cart rows, and the largest total a
\* numeric(30, 2) holds; a larger sum is Infinity
NumCategories == 4
MaxCart == 2
MaxTotal == 40

Categories == 1..NumCategories
CartPrices == {3, 5}
Infinity == MaxTotal + 1
Saturate(x) == IF x > MaxTotal THEN Infinity ELSE x

\* parent_id INT has no foreign key: it may name a category that is not in
\* the table
MissingCategory == NumCategories + 1

\* the category trees: every category has no parent (0), an earlier one, or
\* one that does not exist
CategoryTrees ==
    {f \in [Categories -> 0..MissingCategory] :
        \A c \in Categories : f[c] < c \/ f[c] = MissingCategory}

CartOf(c) == {i \in 1..Len(shopping_cart) : shopping_cart[i].category_id = c}

RECURSIVE SumCart(_)
SumCart(ids) ==
    IF ids = {} THEN 0
    ELSE LET i == CHOOSE i \in ids : TRUE
         IN  shopping_cart[i].price + SumCart(ids \ {i})

RECURSIVE SumTotals(_)
SumTotals(rows) ==
    IF rows = {} THEN 0
    ELSE LET r == CHOOSE r \in rows : TRUE
         IN  r.total + SumTotals(rows \ {r})

\* SELECT category_id, sum(price) AS total FROM shopping_cart GROUP BY category_id
BaseRows ==
    {[category_id |-> c, total |-> Saturate(SumCart(CartOf(c))), branch |-> "base"] :
        c \in {k \in Categories : CartOf(k) # {}}}

\* the categories c joined to a rollup row of category x: c.parent_id = x
JoinedTo(x) == {c \in Categories : categories[c] = x}

\* SELECT parent_id AS category_id, sum(total) AS total FROM rollup AS r
\* JOIN categories AS c ON r.category_id = c.parent_id GROUP BY parent_id:
\* every rollup row of x is paired with every c joined to x, and the pairs
\* are summed under c.parent_id, which is x
RecursiveRows(r) ==
    {[category_id |-> x,
      total |-> Saturate(Cardinality(JoinedTo(x))
                            * SumTotals({row \in r : row.category_id = x})),
      branch |-> "rec"] :
        x \in {k \in Categories :
                    JoinedTo(k) # {} /\ \E row \in r : row.category_id = k}}

\* one iteration of WITH MUTUALLY RECURSIVE: base UNION ALL recursive
RollupBody(r) == BaseRows \cup RecursiveRows(r)

\* the iterations from the empty relation to the fixpoint
RECURSIVE RollupFrom(_)
RollupFrom(r) == IF RollupBody(r) = r THEN r ELSE RollupFrom(RollupBody(r))

rollup == RollupFrom({})

\* SELECT category_id, category_name, total FROM rollup INNER JOIN categories
\* USING (category_id) WHERE total::text <> 'Infinity'
hierarchical_totals ==
    {[category_id |-> r.category_id, total |-> r.total] :
        r \in {row \in rollup : row.category_id \in Categories /\ row.total # Infinity}}

RuInit ==
    /\ categories \in CategoryTrees
    /\ shopping_cart = <<>>

RuIdle ==
    /\ categories = [c \in Categories |-> 0]
    /\ shopping_cart = <<>>

RuFrame == UNCHANGED <<scVars, stVars, prVars, snVars, meVars, uiVars>>

\* a row is added to shopping_cart
AddToCart(c, price) ==
    /\ Len(shopping_cart) < MaxCart
    /\ shopping_cart' = Append(shopping_cart, [category_id |-> c, price |-> price])
    /\ UNCHANGED categories
    /\ RuFrame

RuNext == \E c \in Categories, price \in CartPrices : AddToCart(c, price)

\* what the result shows for category c (nothing shown counts as 0), and the
\* subtotal of the cart rows attached to c
TotalOf(c) == SumTotals({r \in hierarchical_totals : r.category_id = c})
DirectSubtotal(c) == SumCart(CartOf(c))

RECURSIVE SumTotalOf(_)
SumTotalOf(cs) ==
    IF cs = {} THEN 0
    ELSE LET c == CHOOSE c \in cs : TRUE
         IN  TotalOf(c) + SumTotalOf(cs \ {c})

\* C5: in the rollup result the total of every category is the sum of its
\* children's totals plus the subtotal of the cart rows attached to it.
C5_RollupInvariant ==
    \A c \in Categories :
        TotalOf(c) = SumTotalOf({k \in Categories : categories[k] = c}) + DirectSubtotal(c)

\* a category whose parent_id references no category
IsOrphan(c) == categories[c] # 0 /\ categories[c] \notin Categories

\* C18: a category whose parent id references a non-existent category is
\* rejected by the rollup: the result holds no row of it.
C18_OrphanNotInOutput ==
    \A c \in Categories :
        IsOrphan(c) => ~(\E r \in hierarchical_totals : r.category_id = c)

(***************************************************************************)
(*        the periodic snapshot: refresh and fetch of mv_dynamic_pricing    *)
(*                                                                         *)
(* The refresh loop and the fetch are backend code that is not among the   *)
(* sources; they follow the specification: a refresh computes a whole new  *)
(* snapshot item by item and publishes it by one swap, a failed refresh    *)
(* leaves the published snapshot alone, and a fetch reads the snapshot     *)
(* that was published when it began.                                       *)
(***************************************************************************)
\* bounds: the number of refreshes, and the clock
MaxRefreshes == 2
MaxSnClock == 3

\* the row of the materialized view for product p, computed now by refresh n
SnapshotRows(n, p) ==
    {[product_id |-> r.product_id, adjusted_price |-> r.adjusted_price, refresh |-> n] :
        r \in RowsOf(mv_dynamic_pricing, p)}

NoStaging == [active |-> FALSE, refresh |-> 0, rows |-> {}, todo |-> {}, began |-> 0]

\* INSERT INTO materialized_view_refresh_log (view_name, last_refresh)
\* VALUES ('mv_dynamic_pricing', now()): refresh_duration defaults to 0
InitialRefreshLog == [last_refresh |-> 0, refresh_duration |-> 0]

\* the staleness of the snapshot: the time since its last completion
Staleness == snClock - refresh_log.last_refresh
NoFetch == [pc |-> "idle", snap |-> [refresh |-> 0, rows |-> {}], todo |-> {}, got |-> {}]

\* one sale of every product, and a promotion on products 1 and 2
OneSaleEach == [p \in Products |-> [product_id |-> p, price |-> 50, sale_date |-> p]]

SnInit ==
    /\ sales = OneSaleEach
    /\ promotions = <<Promotion(1, 10, TRUE), Promotion(2, 20, FALSE)>>
    /\ inventory = <<>>
    /\ rowOrder = [e \in Engines |-> "asc"]
    /\ changes = 0
    /\ lastToggle = NoToggle
    /\ mv = [refresh |-> 0, rows |-> UNION {SnapshotRows(0, p) : p \in Products}]
    /\ staging = NoStaging
    /\ fetch = NoFetch
    /\ snClock = 0
    /\ refresh_log = InitialRefreshLog
    /\ snFailed = FALSE

SnIdle ==
    /\ mv = [refresh |-> 0, rows |-> {}]
    /\ staging = NoStaging
    /\ fetch = NoFetch
    /\ snClock = 0
    /\ refresh_log = InitialRefreshLog
    /\ snFailed = FALSE

SnFrame == UNCHANGED <<scVars, stVars, ruVars, meVars, uiVars>>

\* the timer starts a refresh
RefreshBegin ==
    /\ ~staging.active
    /\ mv.refresh < MaxRefreshes
    /\ staging' = [active |-> TRUE, refresh |-> mv.refresh + 1, rows |-> {},
                   todo |-> Products, began |-> snClock]
    /\ UNCHANGED <<mv, fetch, prVars, snClock, refresh_log, snFailed>>
    /\ SnFrame

\* the refresh computes the value of the next item of its pass
RefreshCompute(p) ==
    /\ staging.active
    /\ p \in staging.todo
    /\ \A q \in staging.todo : p <= q
    /\ staging' = [staging EXCEPT !.rows = @ \cup SnapshotRows(staging.refresh, p),
                                  !.todo = @ \ {p}]
    /\ UNCHANGED <<mv, fetch, prVars, snClock, refresh_log, snFailed>>
    /\ SnFrame

\* the refresh publishes the snapshot it computed and records the time of
\* completion and the duration of the pass
RefreshCommit ==
    /\ staging.active
    /\ staging.todo = {}
    /\ mv' = [refresh |-> staging.refresh, rows |-> staging.rows]
    /\ staging' = NoStaging
    /\ refresh_log' = [last_refresh |-> snClock,
                       refresh_duration |-> snClock - staging.began]
    /\ snFailed' = FALSE
    /\ UNCHANGED <<fetch, prVars, snClock>>
    /\ SnFrame

\* the refresh fails and records the time as if it had completed
RefreshFailLogged ==
    /\ staging.active
    /\ staging' = NoStaging
    /\ refresh_log' = [last_refresh |-> snClock,
                       refresh_duration |-> snClock - staging.began]
    /\ snFailed' = TRUE
    /\ UNCHANGED <<mv, fetch, prVars, snClock>>
    /\ SnFrame

\* the refresh fails: the published snapshot and its log row stay
RefreshFail ==
    /\ staging.active
    /\ staging' = NoStaging
    /\ snFailed' = TRUE
    /\ UNCHANGED <<mv, fetch, prVars, snClock, refresh_log>>
    /\ SnFrame

\* time passes
SnTick ==
    /\ snClock < MaxSnClock
    /\ snClock' = snClock + 1
    /\ UNCHANGED <<mv, staging, fetch, prVars, refresh_log, snFailed>>
    /\ SnFrame

\* a fetch begins on the snapshot that is published now
FetchBegin ==
    /\ fetch.pc # "reading"
    /\ fetch' = [pc |-> "reading", snap |-> mv,
                 todo |-> {r.product_id : r \in mv.rows}, got |-> {}]
    /\ UNCHANGED <<mv, staging, prVars, snClock, refresh_log, snFailed>>
    /\ SnFrame

\* the fetch reads the current snapshot instead of the one it began on
FetchReadPublished(p) ==
    /\ fetch.pc = "reading"
    /\ p \in fetch.todo
    /\ fetch' = [fetch EXCEPT !.got = @ \cup {r \in mv.rows : r.product_id = p},
                              !.todo = @ \ {p},
                              !.pc = IF fetch.todo = {p} THEN "done" ELSE "reading"]
    /\ UNCHANGED <<mv, staging, prVars, snClock, refresh_log, snFailed>>
    /\ SnFrame

\* the fetch reads the value of one more item
FetchRead(p) ==
    /\ fetch.pc = "reading"
    /\ p \in fetch.todo
    /\ fetch' = [fetch EXCEPT !.got = @ \cup {r \in fetch.snap.rows : r.product_id = p},
                              !.todo = @ \ {p},
                              !.pc = IF fetch.todo = {p} THEN "done" ELSE "reading"]
    /\ UNCHANGED <<mv, staging, prVars, snClock, refresh_log, snFailed>>
    /\ SnFrame

SnNext ==
    \/ RefreshBegin
    \/ \E p \in Products : RefreshCompute(p)
    \/ RefreshCommit
    \/ RefreshFail
    \/ FetchBegin
    \/ \E p \in Products : FetchRead(p)
    \/ \E i \in 1..Len(promotions) : TogglePromotion(i)

\* the refresh loop and the clock, without the fetches
SnLogNext ==
    \/ RefreshBegin
    \/ \E p \in Products : RefreshCompute(p)
    \/ RefreshCommit
    \/ RefreshFail
    \/ SnTick

\* C4: the values of one fetch batch all come from one refresh: a fetch
\* that runs while a refresh computes and publishes a new snapshot never
\* holds values of refresh N next to values of refresh N-1.
C4_FetchBatchFromOneRefresh ==
    \A r1, r2 \in fetch.got : r1.refresh = r2.refresh

\* a completed fetch of several items during which a refresh published a
\* snapshot with other values
C4_FetchedAcrossASwap ==
    /\ fetch.pc = "done"
    /\ Cardinality(fetch.got) > 1
    /\ mv.refresh > fetch.snap.refresh
    /\ \E r \in fetch.got : \E n \in mv.rows :
          n.product_id = r.product_id /\ n.adjusted_price # r.adjusted_price

\* C15: the staleness of the periodic snapshot is 0 right after a
\* successful refresh and does not decrease until the next successful
\* refresh; a failed refresh does not reset it.
C15_StalenessGrowsUntilRefreshed ==
    [][/\ mv'.refresh # mv.refresh => Staleness' = 0
       /\ mv'.refresh = mv.refresh => Staleness' >= Staleness]_vars

\* a refresh failed after a successful one, and the snapshot is stale
C15_StaleAfterFailedRefresh ==
    /\ mv.refresh > 0
    /\ snFailed
    /\ Staleness > 1

(***************************************************************************)
(*                      fetchMetrics: the polling loop                     *)
(*                                                                         *)
(* Time is counted in minutes; the poll interval and the retry delays are  *)
(* shorter than that, so a pending timer fires before the clock moves.  The *)
(* effect runs once (productId is a constant), so the isFetching its       *)
(* closure reads stays the initial false.  The backend's response is not   *)
(* among the sources: it is stamped with the time it is delivered, and it  *)
(* carries prices and statistics for all strategies, for all but           *)
(* Materialize, or for none.                                               *)
(***************************************************************************)
\* bounds: the clock and the number of requests
MaxTime == 6
MaxFetches == 4

\* timeout: 300000, in minutes
FetchTimeout == 5
MAX_RETRIES == 3

\* HISTORY_WINDOW_MS, in minutes
HISTORY_WINDOW_MS(rev) == IF rev = "App" THEN 5 ELSE 3

Prices == {"p1"}

ResponseWith(priced, v) ==
    [timestamp |-> now,
     price |-> [src \in Sources |-> IF src \in priced THEN v ELSE "null"],
     hasStats |-> priced # {}]

Responses ==
    {ResponseWith(priced, v) :
        priced \in {Sources, Sources \ {"materialize"}, {}}, v \in Prices}

\* filtered[filtered.length - 1] || {}
NoMetric == [id |-> 0, timestamp |-> 0, price |-> [src \in Sources |-> "undefined"]]
LastOf(ms) == IF ms = <<>> THEN NoMetric ELSE ms[Len(ms)]

\* the filter that keeps every sample
KeepAll(prev, t) == prev

\* prev.filter(m => (now - m.timestamp) <= HISTORY_WINDOW_MS)
Filtered(prev, t) ==
    SelectSeq(prev, LAMBDA m : (t - m.timestamp) <= HISTORY_WINDOW_MS(revision))

\* the sample built from the response; a null price is replaced by the last
\* sample's
newMetric(id, data, lastMetric) ==
    [id |-> id,
     timestamp |-> data.timestamp,
     price |-> [src \in Sources |->
                   IF data.price[src] # "null" THEN data.price[src]
                   ELSE lastMetric.price[src]]]

\* the updater that puts the sample in the place of the last one
ReplaceLast(filtered, m) ==
    IF filtered = <<>> THEN <<m>> ELSE [filtered EXCEPT ![Len(filtered)] = m]

\* [...filtered, newMetric]
AppendMetric(filtered, m) == Append(filtered, m)

\* the updater of setMetrics(prev => ...)
UpdateMetrics(prev, t, id, data) ==
    LET filtered == Filtered(prev, t)
    IN  AppendMetric(filtered, newMetric(id, data, LastOf(filtered)))

\* the updater of setStats(prev => ...): statistics the response carries
\* replace the previous ones
UpdateStats(prev, id, data) ==
    IF data.hasStats THEN [src \in Sources |-> id] ELSE prev

NoFailure == [set |-> FALSE, metrics |-> <<>>, stats |-> [src \in Sources |-> 0]]

MeInit ==
    /\ now = 0
    /\ metrics = <<>>
    /\ stats = [src \in Sources |-> 0]
    /\ retryCount = 0
    /\ timers = 0
    /\ inflight = {[id |-> 1, sent |-> 0]}
    /\ started = 1
    /\ observed = [src \in Sources |-> "none"]
    /\ failed = NoFailure
    /\ delivered = {}
    /\ overlapped = FALSE

MeIdle == MeInit

MeFrame == UNCHANGED <<scOther, stVars, prVars, ruVars, snVars, uiVars>>

\* a minute passes: the timers, set for one to three seconds, have fired,
\* and a request is aborted when its timeout is over
Tick ==
    /\ now < MaxTime
    /\ timers = 0
    /\ \A f \in inflight : now - f.sent < FetchTimeout
    /\ now' = now + 1
    /\ failed' = NoFailure
    /\ UNCHANGED <<metrics, stats, retryCount, timers, inflight, started,
                   observed, delivered, overlapped, error>>
    /\ MeFrame

\* a timer fires: fetchMetrics sends its request
TimerFires ==
    /\ timers > 0
    /\ started < MaxFetches
    /\ timers' = timers - 1
    /\ started' = started + 1
    /\ inflight' = inflight \cup {[id |-> started + 1, sent |-> now]}
    /\ failed' = NoFailure
    /\ UNCHANGED <<now, metrics, stats, retryCount, observed, delivered, overlapped, error>>
    /\ MeFrame

\* the response arrives with data
FetchSucceeds(f, data) ==
    /\ f \in inflight
    /\ retryCount' = 0
    /\ metrics' = UpdateMetrics(metrics, now, f.id, data)
    /\ stats' = UpdateStats(stats, f.id, data)
    /\ error' = "none"
    /\ inflight' = inflight \ {f}
    /\ timers' = timers + 1
    /\ observed' = [src \in Sources |->
                       IF data.price[src] # "null" THEN data.price[src] ELSE observed[src]]
    /\ delivered' = delivered \cup {[id |-> f.id, timestamp |-> data.timestamp]}
    /\ overlapped' = (overlapped \/ inflight # {f})
    /\ failed' = NoFailure
    /\ UNCHANGED <<now, started>>
    /\ MeFrame

\* the response arrives without data
FetchEmpty(f) ==
    /\ f \in inflight
    /\ retryCount' = 0
    /\ inflight' = inflight \ {f}
    /\ timers' = timers + 1
    /\ failed' = NoFailure
    /\ UNCHANGED <<now, metrics, stats, started, observed, delivered, overlapped, error>>
    /\ MeFrame

\* the failure handler that also empties the window and the statistics
FetchConnectionErrorClears(f) ==
    /\ f \in inflight
    /\ retryCount' = retryCount + 1
    /\ inflight' = inflight \ {f}
    /\ IF retryCount + 1 <= MAX_RETRIES
       THEN timers' = timers + 2 /\ UNCHANGED error
       ELSE timers' = timers + 1 /\ error' = "metrics"
    /\ failed' = [set |-> TRUE, metrics |-> metrics, stats |-> stats]
    /\ metrics' = <<>>
    /\ stats' = [src \in Sources |-> 0]
    /\ UNCHANGED <<now, started, observed, delivered, overlapped>>
    /\ MeFrame

\* the failure handler that gives up one retry early
FetchConnectionErrorEager(f) ==
    /\ f \in inflight
    /\ retryCount' = retryCount + 1
    /\ inflight' = inflight \ {f}
    /\ IF retryCount + 1 < MAX_RETRIES
       THEN timers' = timers + 2 /\ UNCHANGED error
       ELSE timers' = timers + 1 /\ error' = "metrics"
    /\ failed' = [set |-> TRUE, metrics |-> metrics, stats |-> stats]
    /\ UNCHANGED <<now, metrics, stats, started, observed, delivered, overlapped>>
    /\ MeFrame

\* ECONNABORTED (the timeout among them) or ECONNREFUSED: up to MAX_RETRIES
\* times a retry timer is set, and finally sets the poll timer as well
FetchConnectionError(f) ==
    /\ f \in inflight
    /\ retryCount' = retryCount + 1
    /\ inflight' = inflight \ {f}
    /\ IF retryCount + 1 <= MAX_RETRIES
       THEN timers' = timers + 2 /\ UNCHANGED error
       ELSE timers' = timers + 1 /\ error' = "metrics"
    /\ failed' = [set |-> TRUE, metrics |-> metrics, stats |-> stats]
    /\ UNCHANGED <<now, metrics, stats, started, observed, delivered, overlapped>>
    /\ MeFrame

\* any other error
FetchOtherError(f) ==
    /\ f \in inflight
    /\ error' = "metrics"
    /\ inflight' = inflight \ {f}
    /\ timers' = timers + 1
    /\ failed' = [set |-> TRUE, metrics |-> metrics, stats |-> stats]
    /\ UNCHANGED <<now, metrics, stats, retryCount, started, observed, delivered, overlapped>>
    /\ MeFrame

MeNext ==
    \/ Tick
    \/ TimerFires
    \/ \E f \in inflight : \E data \in Responses : FetchSucceeds(f, data)
    \/ \E f \in inflight : FetchEmpty(f)
    \/ \E f \in inflight : FetchConnectionError(f)
    \/ \E f \in inflight : FetchOtherError(f)

\* how often the sample of request id is in the window
CountOf(id) == Cardinality({i \in 1..Len(metrics) : metrics[i].id = id})

\* C12: once a price was delivered for a strategy, the latest sample always
\* carries that strategy's last delivered price, however many responses
\* without a price followed.
C12_LastPriceRetained ==
    \A src \in Sources :
        (observed[src] # "none" /\ metrics # <<>>)
            => LastOf(metrics).price[src] = observed[src]

\* C13: a fetch that fails, the timeout included, ends (no request is
\* pending longer than the timeout) and leaves the window of samples and
\* the statistics exactly as they were before it.
C13_FailedFetchKeepsLastKnown ==
    /\ failed.set => (metrics = failed.metrics /\ stats = failed.stats)
    /\ \A f \in inflight : now - f.sent <= FetchTimeout

C13_FailedWithData ==
    /\ failed.set
    /\ metrics # <<>>
    /\ \E src \in Sources : stats[src] > 0

\* C28: the metrics polling loop is a single chain: at any time at most one
\* fetchMetrics call is in flight or scheduled by a pending timer.
C28_SinglePollingChain ==
    timers + Cardinality(inflight) <= 1

\* C30: a connection error of the metrics fetch counts one more failure, and
\* sets the error only when MAX_RETRIES retries have failed before it: with
\* fewer failures in a row the error state is left as it was; a successful
\* fetch resets the retry counter to 0.
C30_ErrorOnlyAfterRetries ==
    [][/\ \A f \in inflight :
             FetchConnectionError(f)
                 => /\ retryCount' = retryCount + 1
                    /\ retryCount < MAX_RETRIES => error' = error
                    /\ retryCount >= MAX_RETRIES => error' = "metrics"
       /\ \A f \in inflight : \A data \in Responses :
             FetchSucceeds(f, data) => retryCount' = 0]_vars

C30_RetriesExhausted ==
    retryCount = MAX_RETRIES + 1 /\ error = "metrics"

\* C16: every sample in the window is at most the window duration older
\* than the arrival of the latest sample; older ones were evicted when
\* that sample was appended.
C16_WindowHoldsRecentSamples ==
    \A i \in 1..Len(metrics) :
        LastOf(metrics).timestamp - metrics[i].timestamp <= HISTORY_WINDOW_MS(revision)

C16_SampleEvicted ==
    /\ metrics # <<>>
    /\ \E d \in delivered : CountOf(d.id) = 0

\* C17: every sample handed to setMetrics is in the window exactly once,
\* whatever the order in which concurrent fetches complete, until it is
\* evicted for its age.
C17_NoLostAppend ==
    \A d \in delivered :
        \/ CountOf(d.id) = 1
        \/ /\ CountOf(d.id) = 0
           /\ \E e \in delivered :
                 e.timestamp - d.timestamp > HISTORY_WINDOW_MS(revision)

C17_ConcurrentAppends ==
    /\ overlapped
    /\ Len(metrics) > 1
    /\ \E i \in 1..Len(metrics) : metrics[i].timestamp = LastOf(metrics).timestamp
                                     /\ metrics[i].id # LastOf(metrics).id

(***************************************************************************)
(*                     PriceDisplay (frontend/src/App.jsx)                 *)
(*                                                                         *)
(* One PriceDisplay per strategy shows the strategy's price and, below    *)
(* it, "as of T seconds ago".  T is the end-to-end latency of the current  *)
(* sample, or, when the sample has none, an extrapolation from two refs.   *)
(* A nullable number is an empty or a one-element sequence.                *)
(***************************************************************************)
MaxClock == 4

Latencies == {1, 2}

NoValue == <<>>

Measurements == {<<l>> : l \in Latencies}

NoDisplay ==
    [mounted |-> FALSE, reactionTime |-> NoValue,
     lastReactionTimeRef |-> NoValue, lastUpdateTimeRef |-> 0,
     displayReactionTime |-> NoValue, renderedAt |-> 0]

NoObservation == [value |-> NoValue, at |-> 0]

\* getExtrapolatedReactionTime() at time t
getExtrapolatedReactionTime(reactionTime, lastReactionTime, lastUpdateTime, t) ==
    IF reactionTime # NoValue THEN reactionTime
    ELSE IF lastReactionTime = NoValue THEN NoValue
    ELSE <<lastReactionTime[1] + (t - lastUpdateTime)>>

\* useEffect(..., [reactionTime]): runs after the first render and after a
\* render whose reactionTime differs from that of the render before
EffectRuns(first, before, reactionTime) == first \/ reactionTime # before

\* a render of PriceDisplay with the prop reactionTime at time t, and the
\* effect that follows it
Render(p, first, reactionTime, t) ==
    LET record == /\ EffectRuns(first, p.reactionTime, reactionTime)
                  /\ reactionTime # NoValue
    IN  [mounted |-> TRUE,
         reactionTime |-> reactionTime,
         lastReactionTimeRef |-> IF record THEN reactionTime ELSE p.lastReactionTimeRef,
         lastUpdateTimeRef |-> IF record THEN t ELSE p.lastUpdateTimeRef,
         displayReactionTime |->
             getExtrapolatedReactionTime(reactionTime, p.lastReactionTimeRef,
                                         p.lastUpdateTimeRef, t),
         renderedAt |-> t]

\* the first render: useRef(reactionTime), useRef(Date.now())
Mounted(reactionTime, t) ==
    Render([NoDisplay EXCEPT !.lastReactionTimeRef = reactionTime,
                             !.lastUpdateTimeRef = t],
           TRUE, reactionTime, t)

PdInit ==
    /\ pdClock = 0
    /\ latency = NoValue
    /\ pd = Mounted(NoValue, 0)
    /\ pdObs = NoObservation

PdIdle ==
    /\ pdClock = 0
    /\ latency = NoValue
    /\ pd = NoDisplay
    /\ pdObs = NoObservation


PdFrame == UNCHANGED <<scVars, stVars, prVars, ruVars, snVars, meVars, caVars, riVars>>

\* a second passes
PdTick ==
    /\ pdClock < MaxClock
    /\ pdClock' = pdClock + 1
    /\ UNCHANGED <<latency, pd, pdObs>>
    /\ PdFrame

\* setMetrics appended a sample whose latency of the strategy is r (null
\* when the strategy delivered no measurement); App renders again
Deliver(r) ==
    /\ latency' = r
    /\ pdObs' = IF r # NoValue THEN [value |-> r, at |-> pdClock] ELSE pdObs
    /\ pd' = IF pd.mounted THEN Render(pd, FALSE, r, pdClock) ELSE pd
    /\ UNCHANGED pdClock
    /\ PdFrame

\* App renders again for another change of its state
Rerender ==
    /\ pd.mounted
    /\ pd' = Render(pd, FALSE, latency, pdClock)
    /\ UNCHANGED <<pdClock, latency, pdObs>>
    /\ PdFrame

\* {scenarios.<strategy> && (... <PriceDisplay .../> ...)}: the card of the
\* strategy is hidden or shown
ToggleCard ==
    /\ pd' = IF pd.mounted THEN NoDisplay ELSE Mounted(latency, pdClock)
    /\ UNCHANGED <<pdClock, latency, pdObs>>
    /\ PdFrame

PdNext ==
    \/ PdTick
    \/ \E r \in Measurements \cup {NoValue} : Deliver(r)
    \/ Rerender
    \/ ToggleCard

\* C14: while the current sample has no staleness measurement of the
\* strategy, the display is marked "as of T seconds ago" with T = the last
\* measurement delivered + the time between its delivery and the render.
C14_AsOfExtrapolatesLastMeasurement ==
    (pd.mounted /\ pd.reactionTime = NoValue /\ pdObs.value # NoValue)
        => pd.displayReactionTime
               = <<pdObs.value[1] + (pd.renderedAt - pdObs.at)>>

(***************************************************************************)
(*            ShoppingCart: the category table of the cart                 *)
(*                                                                         *)
(* The component polls GET /api/shopping-cart?expanded=<ids> and renders   *)
(* the category_subtotals of the last response as a tree.  The endpoint is *)
(* backend code that is not among the sources; it follows the              *)
(* specification: it computes the complete tree (every category with a     *)
(* reachable item, with the subtotal and the item count of its subtree,    *)
(* and an "Other" row for the items attached directly to a category that   *)
(* has children), serializes the roots and the children of the expanded    *)
(* categories, and reports an integrity error when a category's parent     *)
(* does not exist.  The tables stay as they are while the table is         *)
(* browsed, so that a change of a reported value can only come from        *)
(* expanding or collapsing.                                                *)
(***************************************************************************)
\* bound: the requests in flight
MaxCartFetches == 2

\* the reserved offset of the id of an "Other" row
OtherOffset == 100

\* the trees browsed: categories 2 and 3 have no parent or the category
\* before them, category 3 may have a parent that does not exist, and the
\* other categories are roots
UiTrees ==
    {f \in CategoryTrees :
        \A c \in Categories : \/ f[c] = 0
                              \/ c \in {2, 3} /\ f[c] = c - 1
                              \/ c = 3 /\ f[c] = MissingCategory}

\* the carts browsed: an item in category 3, alone or with an item in
\* category 1
UiCarts ==
    {<<[category_id |-> 3, price |-> 3]>>,
     <<[category_id |-> 1, price |-> 3], [category_id |-> 3, price |-> 5]>>}

Children(c) == {k \in Categories : categories[k] = c}

RECURSIVE Subtree(_)
Subtree(c) == {c} \cup UNION {Subtree(k) : k \in Children(c)}

SubtreeItems(c) == UNION {CartOf(k) : k \in Subtree(c)}

\* the complete tree the endpoint computes
complete_tree ==
    {[category_id |-> c, parent_id |-> categories[c],
      subtotal |-> SumCart(SubtreeItems(c)),
      item_count |-> Cardinality(SubtreeItems(c)),
      has_subcategory |-> Children(c) # {}] :
        c \in {k \in Categories : SubtreeItems(k) # {}}}
    \cup
    {[category_id |-> c + OtherOffset, parent_id |-> c,
      subtotal |-> SumCart(CartOf(c)),
      item_count |-> Cardinality(CartOf(c)),
      has_subcategory |-> FALSE] :
        c \in {k \in Categories : Children(k) # {} /\ CartOf(k) # {}}}

\* data.category_subtotals of the response to ?expanded=<expanded>
category_subtotals(expanded) ==
    {r \in complete_tree : r.parent_id = 0 \/ r.parent_id \in expanded}

\* the cells of the row rendered for cat
RowOf(cat) ==
    [category_id |-> cat.category_id, item_count |-> cat.item_count,
     subtotal |-> cat.subtotal]

\* a rendering in which a collapsed category reports its direct items and
\* an expanded one its whole subtree
RECURSIVE renderCategoryRowsLazy(_)
renderCategoryRowsLazy(parentId) ==
    UNION {{IF cat.category_id \in expandedCategories \/ ~cat.has_subcategory
               THEN RowOf(cat)
               ELSE [category_id |-> cat.category_id,
                     item_count |-> Cardinality(CartOf(cat.category_id)),
                     subtotal |-> SumCart(CartOf(cat.category_id))]}
           \cup (IF cat.category_id \in expandedCategories
                    THEN renderCategoryRowsLazy(cat.category_id) ELSE {}) :
           cat \in {c \in categorySubtotals : c.parent_id = parentId}}

\* renderCategoryRows(parentId): the rows of the categories under parentId
\* (0 for null), each followed by its own rows if it is expanded
RECURSIVE renderCategoryRows(_)
renderCategoryRows(parentId) ==
    UNION {{RowOf(cat)}
           \cup (IF cat.category_id \in expandedCategories
                    THEN renderCategoryRows(cat.category_id) ELSE {}) :
           cat \in {c \in categorySubtotals : c.parent_id = parentId}}

\* what the component shows: the error, or the table
Shown == IF caError THEN {} ELSE renderCategoryRows(0)

\* the first render and the first run of the effect: fetchData()
CaInit ==
    /\ categories \in UiTrees
    /\ shopping_cart \in UiCarts
    /\ expandedCategories = {}
    /\ categorySubtotals = {}
    /\ caError = FALSE
    /\ caFetches = {{}}
    /\ caLast = "none"

CaIdle ==
    /\ expandedCategories = {}
    /\ categorySubtotals = {}
    /\ caError = FALSE
    /\ caFetches = {}
    /\ caLast = "none"

CaFrame == UNCHANGED <<scVars, stVars, prVars, ruVars, snVars, meVars, pdVars, riVars>>

\* a click on the row of categoryId: toggleCategory(categoryId), then the
\* effect runs again for the new expandedCategories and calls fetchData()
toggleCategory(categoryId) ==
    /\ ~caError
    /\ \E row \in Shown : row.category_id = categoryId
    /\ Cardinality(caFetches) < MaxCartFetches
    /\ expandedCategories' = IF categoryId \in expandedCategories
                                THEN expandedCategories \ {categoryId}
                                ELSE expandedCategories \cup {categoryId}
    /\ caFetches' = caFetches \cup {expandedCategories'}
    /\ UNCHANGED <<categorySubtotals, caError, caLast>>
    /\ CaFrame

\* setInterval(fetchData, 1000) fires
PollCart ==
    /\ Cardinality(caFetches) < MaxCartFetches
    /\ caFetches' = caFetches \cup {expandedCategories}
    /\ UNCHANGED <<expandedCategories, categorySubtotals, caError, caLast>>
    /\ CaFrame

\* the response of the request sent with ?expanded=f arrives:
\* setCategorySubtotals
CartResponds(f) ==
    /\ f \in caFetches
    /\ \A c \in Categories : ~IsOrphan(c)
    /\ categorySubtotals' = category_subtotals(f)
    /\ caFetches' = caFetches \ {f}
    /\ caLast' = "ok"
    /\ UNCHANGED <<expandedCategories, caError>>
    /\ CaFrame

\* the request sent with ?expanded=f fails or its response is not ok:
\* setError
CartFails(f) ==
    /\ f \in caFetches
    /\ caError' = TRUE
    /\ caFetches' = caFetches \ {f}
    /\ caLast' = "failed"
    /\ UNCHANGED <<expandedCategories, categorySubtotals>>
    /\ CaFrame

CaNext ==
    \/ \E c \in Categories \cup {k + OtherOffset : k \in Categories} : toggleCategory(c)
    \/ PollCart
    \/ \E f \in caFetches : CartResponds(f)
    \/ \E f \in caFetches : CartFails(f)

\* C21: after a failed poll followed by a successful poll the cart shows
\* the fetched data again: it is not in the failed state when the last
\* completed poll succeeded.
C21_SuccessfulPollEndsFailure ==
    caLast = "ok" => ~caError

\* C19: whatever is expanded or collapsed, every row shown reports the
\* subtotal and the item count its category has in the complete tree.
C19_ExpandOnlyFilters ==
    \A row \in Shown : \E cat \in complete_tree : row = RowOf(cat)

\* a category is expanded and shows a child, and another one is collapsed
\* with its child rows still held
C19_ExpandedAndCollapsed ==
    /\ ~caError
    /\ \E cat \in categorySubtotals :
          /\ cat.parent_id \in expandedCategories
          /\ RowOf(cat) \in Shown
    /\ \E cat \in categorySubtotals :
          /\ cat.parent_id # 0
          /\ cat.parent_id \notin expandedCategories
          /\ RowOf(cat) \notin Shown

(***************************************************************************)
(*              updateRefreshInterval: the refresh interval                *)
(*                                                                         *)
(* The FreshFund revision keeps the interval in the state refreshInterval; *)
(* App.jsx calls setRefreshInterval without declaring it, so the call      *)
(* throws inside the try block.  The endpoints configure-refresh-interval  *)
(* and current-refresh-interval are backend code that is not among the     *)
(* sources; they follow the specification and the README: an interval      *)
(* outside 30 s .. 2 min is rejected and leaves the configuration as it    *)
(* is.                                                                     *)
(***************************************************************************)
\* bound: the calls of updateRefreshInterval
MaxConfigCalls == 3

DefaultInterval == 60
MinInterval == 30
MaxInterval == 120

\* the values asked for: below 1, too short, and two valid ones
IntervalValues == {0, 5, 30, 90}

ValidInterval(v) == MinInterval <= v /\ v <= MaxInterval

NoCall == [value |-> NoValue, sent |-> FALSE]

\* useState(60) in the FreshFund revision; no such state in App.jsx
InitialInterval(rev) == IF rev = "FreshFund" THEN <<DefaultInterval>> ELSE NoValue

\* the mount effect has called fetchRefreshInterval()
RiInit ==
    /\ refreshInterval = InitialInterval(revision)
    /\ serverInterval = DefaultInterval
    /\ isRefreshConfigLoading = FALSE
    /\ riRequests = {[kind |-> "current", value |-> 0]}
    /\ riResponses = {}
    /\ riCalls = 0
    /\ riLast = NoCall

RiIdle ==
    /\ refreshInterval = InitialInterval(revision)
    /\ serverInterval = DefaultInterval
    /\ isRefreshConfigLoading = FALSE
    /\ riRequests = {}
    /\ riResponses = {}
    /\ riCalls = 0
    /\ riLast = NoCall

RiFrame == UNCHANGED <<scOther, stVars, prVars, ruVars, snVars, meVars, pdVars, caVars>>

\* updateRefreshInterval(value) up to the await
updateRefreshInterval(value) ==
    /\ riCalls < MaxConfigCalls
    /\ riCalls' = riCalls + 1
    /\ IF value < 1
          THEN /\ riLast' = [value |-> <<value>>, sent |-> FALSE]
               /\ UNCHANGED <<isRefreshConfigLoading, riRequests>>
          ELSE /\ riLast' = [value |-> <<value>>, sent |-> TRUE]
               /\ isRefreshConfigLoading' = TRUE
               /\ riRequests' = riRequests \cup {[kind |-> "configure", value |-> value]}
    /\ UNCHANGED <<refreshInterval, serverInterval, riResponses, error>>
    /\ RiFrame

\* the backend handles POST /configure-refresh-interval/{value}
Configure(q) ==
    /\ q \in riRequests
    /\ q.kind = "configure"
    /\ riRequests' = riRequests \ {q}
    /\ IF ValidInterval(q.value)
          THEN /\ serverInterval' = q.value
               /\ riResponses' = riResponses \cup
                     {[kind |-> q.kind, value |-> q.value, status |-> "success"]}
          ELSE /\ UNCHANGED serverInterval
               /\ riResponses' = riResponses \cup
                     {[kind |-> q.kind, value |-> q.value, status |-> "rejected"]}
    /\ UNCHANGED <<refreshInterval, isRefreshConfigLoading, riCalls, riLast, error>>
    /\ RiFrame

\* the backend handles GET /current-refresh-interval
Current(q) ==
    /\ q \in riRequests
    /\ q.kind = "current"
    /\ riRequests' = riRequests \ {q}
    /\ riResponses' = riResponses \cup
          {[kind |-> q.kind, value |-> serverInterval, status |-> "success"]}
    /\ UNCHANGED <<refreshInterval, serverInterval, isRefreshConfigLoading,
                   riCalls, riLast, error>>
    /\ RiFrame

\* the request is lost: axios throws
RequestFails(q) ==
    /\ q \in riRequests
    /\ riRequests' = riRequests \ {q}
    /\ riResponses' = riResponses \cup
          {[kind |-> q.kind, value |-> q.value, status |-> "failed"]}
    /\ UNCHANGED <<refreshInterval, serverInterval, isRefreshConfigLoading,
                   riCalls, riLast, error>>
    /\ RiFrame

\* setRefreshInterval(v): a ReferenceError in App.jsx
setRefreshInterval(v) ==
    IF revision = "FreshFund" THEN refreshInterval' = <<v>> ELSE UNCHANGED refreshInterval

\* the rest of updateRefreshInterval, with the interval set before the
\* status of the response is looked at
ConfigureRespondsOptimistic(r) ==
    /\ r \in riResponses
    /\ r.kind = "configure"
    /\ riResponses' = riResponses \ {r}
    /\ setRefreshInterval(r.value)
    /\ error' = IF r.status = "success" /\ revision = "FreshFund"
                   THEN error ELSE "refresh interval"
    /\ isRefreshConfigLoading' = FALSE
    /\ UNCHANGED <<serverInterval, riRequests, riCalls, riLast>>
    /\ RiFrame

\* the rest of updateRefreshInterval: the response, catch and finally
ConfigureResponds(r) ==
    /\ r \in riResponses
    /\ r.kind = "configure"
    /\ riResponses' = riResponses \ {r}
    /\ IF r.status = "success"
          THEN /\ setRefreshInterval(r.value)
               /\ error' = IF revision = "FreshFund" THEN error ELSE "refresh interval"
          ELSE /\ UNCHANGED refreshInterval
               /\ error' = "refresh interval"
    /\ isRefreshConfigLoading' = FALSE
    /\ UNCHANGED <<serverInterval, riRequests, riCalls, riLast>>
    /\ RiFrame

\* the rest of fetchRefreshInterval: the error is only logged
CurrentResponds(r) ==
    /\ r \in riResponses
    /\ r.kind = "current"
    /\ riResponses' = riResponses \ {r}
    /\ IF r.status = "success"
          THEN setRefreshInterval(r.value)
          ELSE UNCHANGED refreshInterval
    /\ UNCHANGED <<serverInterval, isRefreshConfigLoading, riRequests, riCalls,
                   riLast, error>>
    /\ RiFrame

RiNext ==
    \/ \E value \in IntervalValues : updateRefreshInterval(value)
    \/ \E q \in riRequests : Configure(q)
    \/ \E q \in riRequests : Current(q)
    \/ \E q \in riRequests : RequestFails(q)
    \/ \E r \in riResponses : ConfigureResponds(r)
    \/ \E r \in riResponses : CurrentResponds(r)

UiIdle == PdIdle /\ CaIdle /\ RiIdle

(***************************************************************************)
InitScenario == ScInit /\ StIdle /\ PrIdle /\ RuIdle /\ SnIdle /\ MeIdle /\ UiIdle

SpecScenario == InitScenario /\ [][ScNext]_vars

InitReconcile == ReInit /\ StIdle /\ PrIdle /\ RuIdle /\ SnIdle /\ MeIdle /\ UiIdle

SpecReconcile == InitReconcile /\ [][ReNext]_vars /\ ReFair

InitStats == StInit /\ ScIdle /\ PrIdle /\ RuIdle /\ SnIdle /\ MeIdle /\ UiIdle

SpecStats == InitStats /\ [][StNext]_vars

InitPricing == PrInit /\ ScIdle /\ StIdle /\ RuIdle /\ SnIdle /\ MeIdle /\ UiIdle

SpecPricing == InitPricing /\ [][PrNext]_vars

InitRollup == RuInit /\ ScIdle /\ StIdle /\ PrIdle /\ SnIdle /\ MeIdle /\ UiIdle

SpecRollup == InitRollup /\ [][RuNext]_vars

InitSnapshot == SnInit /\ ScIdle /\ StIdle /\ RuIdle /\ MeIdle /\ UiIdle

SpecSnapshot == InitSnapshot /\ [][SnNext]_vars

SpecRefreshLog == InitSnapshot /\ [][SnLogNext]_vars

InitMetrics ==
    /\ (\E rev \in Revisions : ScIdleOf(rev))
    /\ MeInit /\ StIdle /\ PrIdle /\ RuIdle /\ SnIdle /\ UiIdle

SpecMetrics == InitMetrics /\ [][MeNext]_vars

InitDisplay ==
    PdInit /\ ScIdle /\ StIdle /\ PrIdle /\ RuIdle /\ SnIdle /\ MeIdle /\ CaIdle /\ RiIdle

SpecDisplay == InitDisplay /\ [][PdNext]_vars

InitCart ==
    CaInit /\ ScIdle /\ StIdle /\ PrIdle /\ SnIdle /\ MeIdle /\ PdIdle /\ RiIdle

SpecCart == InitCart /\ [][CaNext]_vars

InitInterval ==
    /\ (\E rev \in Revisions : ScIdleOf(rev))
    /\ RiInit /\ StIdle /\ PrIdle /\ RuIdle /\ SnIdle /\ MeIdle /\ PdIdle /\ CaIdle

SpecInterval == InitInterval /\ [][RiNext]_vars
====
